---- MODULE Spec2Model ----
(***************************************************************************)
(* Model of MetaTagWebApp1.3.py: the Streamlit image metadata utility.     *)
(*                                                                         *)
(*  - SpecAnalyze : analyze_image, one model call per step (retry loop).   *)
(*  - SpecWriter  : the field-setting logic of write_image_metadata,       *)
(*                  applied to bounded metadata records.                   *)
(*  - Spec        : a session: script runs of main() with the tagging and  *)
(*                  stripping batches, the ZIP rendering of both tabs and  *)
(*                  the Clear Outputs buttons, over a model of the temp    *)
(*                  workspace on disk.                                      *)
(***************************************************************************)
EXTENDS Integers, Sequences, FiniteSets, TLC

VARIABLES
    \* ---- analyze_image (SpecAnalyze) ----
    a_pc,             \* "idle" | "call" (line 113 is next) | "done" (returned)
    retries,          \* local `retries` of analyze_image
    calls,            \* number of model.generate_content calls made so far
    raised,           \* how many of those calls raised
    sleeps,           \* the time.sleep arguments so far, in order
    a_result,         \* the value analyze_image returned (None until then)
    returned,         \* TRUE once a model call returned a response object
    text,             \* response.text of that response
    \* ---- write_image_metadata field logic (SpecWriter) ----
    w_ext, w_meta, w_done, w_ret, w_fields,
    \* ---- session (Spec) ----
    RAW_SUCCESS,      \* module constant set at import time (lines 19-24)
    processed_files,  \* st.session_state.processed_files
    disk,             \* the output files that exist under temp_dir/<subdir>/
    scratch,          \* names of the scratch copies directly under temp_dir
    zips,             \* the archives the current script run wrote:
                      \* archive name -> member names, in order
    pc,               \* "idle" (waiting for an interaction) | "tagging" |
                      \* "stripping" (in the loop of process_*) | "finished"
    files,            \* the files of the batch of the current script run
    i,                \* loop index into files
    local,            \* the local list `processed_files` of process_*
    log,              \* per file of the batch: TRUE iff it was appended
    runs,             \* number of script runs (user interactions) so far
    last,             \* the interaction the current script run handles
    exc,              \* the exception that ended the current script run
    metadata,         \* process_tagging: result of analyze_image for the last file
    invoked,          \* process_tagging: whether write_image_metadata was called for it
    fields,           \* process_tagging: container fields the writer set for it
    content           \* output path -> index of the file of the batch whose
                      \* processed content the path holds, for the paths the
                      \* current script run saved

avars == <<a_pc, retries, calls, raised, sleeps, a_result, returned, text>>
wvars == <<w_ext, w_meta, w_done, w_ret, w_fields>>
svars == <<RAW_SUCCESS, processed_files, disk, scratch, zips, pc,
           files, i, local, log, runs, last, exc, metadata, invoked, fields,
           content>>
vars == <<avars, wvars, svars>>

-----------------------------------------------------------------------------
(* Bounds and program constants *)

\* Largest number of files uploaded in one batch.
MaxFiles == 2

\* Largest number of script runs (user interactions) in a session.
MaxRuns == 3

\* Default of the max_retries parameter of analyze_image.
max_retries == 5

-----------------------------------------------------------------------------
(* JSON values.  A metadata value is abstracted to its kind:               *)
(*   "text" a non-empty string, "empty" the empty string,                  *)
(*   "list" a non-empty list of strings, "emptylist" the empty list.       *)

Keys == {"caption", "keywords", "byline", "credit", "source"}
ValueKinds == {"text", "empty", "list", "emptylist"}

EmptyDict == [k \in {} |-> "text"]
None == [kind |-> "None", num |-> 0, dict |-> EmptyDict]
Dict(d) == [kind |-> "dict", num |-> 0, dict |-> d]
Number(n) == [kind |-> "number", num |-> n, dict |-> EmptyDict]

\* Python truthiness of a parsed JSON value (used by `if metadata and ...`).
Truthy(v) ==
    CASE v.kind = "None" -> FALSE
      [] v.kind = "dict" -> DOMAIN v.dict # {}
      [] v.kind = "number" -> v.num # 0

\* Python truthiness of a member value.
TruthyValue(k) == k \in {"text", "list"}
IsList(k) == k \in {"list", "emptylist"}

-----------------------------------------------------------------------------
(* Response text.  A text is a sequence of tokens:                         *)
(*   "SP" a space, "NL" a newline, "ZW" a zero-width character (U+200B),   *)
(*   "FENCE" three backticks, "X" a letter outside any JSON syntax,        *)
(*   "{" "}" "," JSON punctuation, "0" "7" JSON numbers,                   *)
(*   "<key>:<kind>" one JSON object member "key": value of that kind.      *)

MemberTokens == {"caption:text", "caption:empty", "keywords:list",
                 "keywords:emptylist", "keywords:text", "byline:text"}

MemberKey(tok) ==
    CASE tok \in {"caption:text", "caption:empty"} -> "caption"
      [] tok \in {"keywords:list", "keywords:emptylist", "keywords:text"} -> "keywords"
      [] tok = "byline:text" -> "byline"

MemberValue(tok) ==
    CASE tok \in {"caption:text", "keywords:text", "byline:text"} -> "text"
      [] tok = "caption:empty" -> "empty"
      [] tok = "keywords:list" -> "list"
      [] tok = "keywords:emptylist" -> "emptylist"

\* str.strip(): whitespace at both ends; U+200B is not whitespace.
IsSpace(c) == c \in {"SP", "NL"}

RECURSIVE lstrip(_)
lstrip(s) == IF s # <<>> /\ IsSpace(Head(s)) THEN lstrip(Tail(s)) ELSE s

RECURSIVE rstrip(_)
rstrip(s) ==
    IF s # <<>> /\ IsSpace(s[Len(s)]) THEN rstrip(SubSeq(s, 1, Len(s) - 1)) ELSE s

strip(s) == rstrip(lstrip(s))

\* Index of the first newline of s, 0 if there is none.
FirstNL(s) ==
    IF \E k \in 1..Len(s) : s[k] = "NL"
    THEN CHOOSE k \in 1..Len(s) : s[k] = "NL" /\ \A j \in 1..(k - 1) : s[j] # "NL"
    ELSE 0

\* str.splitlines(): no empty last line after a final newline.
RECURSIVE splitlines(_)
splitlines(s) ==
    IF s = <<>> THEN <<>>
    ELSE LET k == FirstNL(s)
         IN IF k = 0 THEN <<s>>
            ELSE <<SubSeq(s, 1, k - 1)>> \o splitlines(SubSeq(s, k + 1, Len(s)))

\* "\n".join(lines)
RECURSIVE join(_)
join(lines) ==
    IF lines = <<>> THEN <<>>
    ELSE IF Len(lines) = 1 THEN lines[1]
    ELSE lines[1] \o <<"NL">> \o join(Tail(lines))

startswith_fence(s) == s # <<>> /\ s[1] = "FENCE"

\* Lines 120-126: remove markdown code fences if present.
remove_fences(json_string) ==
    IF startswith_fence(json_string)
    THEN LET lines == splitlines(json_string)
             l1 == IF lines # <<>> /\ startswith_fence(strip(lines[1]))
                   THEN Tail(lines) ELSE lines
             l2 == IF l1 # <<>> /\ strip(l1[Len(l1)]) = <<"FENCE">>
                   THEN SubSeq(l1, 1, Len(l1) - 1) ELSE l1
         IN strip(join(l2))
    ELSE json_string

\* Line 129: re.sub of the control and zero-width characters.
IsControl(c) == c \in {"NL", "ZW"}
remove_control(s) == SelectSeq(s, LAMBDA c : ~IsControl(c))

\* Lines 117-129: the text handed to json.loads.
sanitize(t) == remove_control(remove_fences(strip(t)))

\* json.loads on a token sequence: [ok, value]; ok = FALSE is JSONDecodeError.
json_skip_ws(s) == SelectSeq(s, LAMBDA c : c # "SP")

RECURSIVE json_members(_)
json_members(s) ==
    \* s: member ("," member)*  ->  [ok, dict]; a repeated key keeps the last value
    IF s = <<>> \/ Head(s) \notin MemberTokens THEN [ok |-> FALSE, dict |-> EmptyDict]
    ELSE LET one == (MemberKey(Head(s)) :> MemberValue(Head(s)))
         IN IF Len(s) = 1 THEN [ok |-> TRUE, dict |-> one]
            ELSE IF s[2] # "," THEN [ok |-> FALSE, dict |-> EmptyDict]
            ELSE LET rest == json_members(SubSeq(s, 3, Len(s)))
                 IN [ok |-> rest.ok, dict |-> rest.dict @@ one]

json_loads(s) ==
    LET t == json_skip_ws(s)
    IN IF Len(t) = 1 /\ t[1] \in {"0", "7"}
       THEN [ok |-> TRUE, value |-> Number(IF t[1] = "0" THEN 0 ELSE 7)]
       ELSE IF Len(t) >= 2 /\ t[1] = "{" /\ t[Len(t)] = "}"
       THEN IF Len(t) = 2 THEN [ok |-> TRUE, value |-> Dict(EmptyDict)]
            ELSE LET m == json_members(SubSeq(t, 2, Len(t) - 1))
                 IN IF m.ok THEN [ok |-> TRUE, value |-> Dict(m.dict)]
                    ELSE [ok |-> FALSE, value |-> None]
       ELSE [ok |-> FALSE, value |-> None]

-----------------------------------------------------------------------------
(* analyze_image (lines 93-147) *)

\* Largest length of the enumerated response texts.
MaxTextLen == 2

TextTokens == {"SP", "NL", "ZW", "FENCE", "X", "{", "}", "caption:text", "0"}

\* Longer responses: fenced JSON, multi-line JSON, several members, truncated JSON.
LongTexts ==
    { <<"FENCE", "NL", "FENCE">>,
      <<"FENCE", "X", "NL", "{", "}", "NL", "FENCE">>,
      <<"FENCE", "X", "NL", "{", "caption:text", ",", "keywords:list", "}", "NL", "FENCE", "NL">>,
      <<"ZW", "FENCE", "NL", "{", "}", "NL", "FENCE">>,
      <<"{", "NL", "SP", "keywords:text", "NL", "}">>,
      <<"{", "caption:empty", ",", "keywords:emptylist", "}">>,
      <<"{", "caption:text", ",", "}">>,
      <<"{", "caption:text", "byline:text", "}">>,
      <<"{", "caption:text", "}", "X">>,
      <<"SP", "7", "SP">> }

Texts == UNION {[1..n -> TextTokens] : n \in 0..MaxTextLen} \cup LongTexts

\* What model.generate_content does on one call: it raises, or it returns a
\* response object with the given text.
Responses ==
    {[raises |-> TRUE, text |-> <<>>]} \cup {[raises |-> FALSE, text |-> t] : t \in Texts}

\* A variant of lines 114-138 in which json.JSONDecodeError is not caught at
\* line 137 and reaches the retrying handler of line 140.
response_outcome_retrying(t) ==
    IF t # <<>> /\ sanitize(t) # <<>> /\ ~json_loads(sanitize(t)).ok
    THEN [exception |-> TRUE, value |-> None]
    ELSE IF t = <<>> \/ sanitize(t) = <<>> THEN [exception |-> FALSE, value |-> None]
    ELSE [exception |-> FALSE, value |-> json_loads(sanitize(t)).value]

\* Lines 114-138, for a response that was returned: the value analyze_image
\* returns, or exception = TRUE if an exception reaches the handler of line 140.
\* Every path of these lines returns; json.JSONDecodeError is caught at line 137.
response_outcome(t) ==
    IF t = <<>> THEN [exception |-> FALSE, value |-> None]
    ELSE LET json_string == sanitize(t)
         IN IF json_string = <<>> THEN [exception |-> FALSE, value |-> None]
            ELSE LET parsed == json_loads(json_string)
                 IN IF parsed.ok THEN [exception |-> FALSE, value |-> parsed.value]
                    ELSE [exception |-> FALSE, value |-> None]

\* A variant of line 142 with a linear delay.
backoff_delay_linear(r) == 2 * r

\* Line 142: the argument of time.sleep.
backoff_delay(r) == 2 ^ r

\* One iteration of the while loop of lines 111-145 on response r, from the
\* loop state st = [retries, sleeps]: the loop state after it, whether
\* analyze_image has returned, and its return value.
attempt(st, r) ==
    LET out == IF r.raises THEN [exception |-> TRUE, value |-> None]
               ELSE response_outcome(r.text)
    IN IF out.exception
       THEN IF st.retries < max_retries
            THEN [retries |-> st.retries + 1,
                  sleeps |-> Append(st.sleeps, backoff_delay(st.retries)),
                  done |-> ~(st.retries + 1 <= max_retries),
                  value |-> None]
            ELSE [retries |-> st.retries, sleeps |-> st.sleeps,
                  done |-> TRUE, value |-> None]
       ELSE [retries |-> st.retries, sleeps |-> st.sleeps,
             done |-> TRUE, value |-> out.value]

\* Lines 95-110: a call of analyze_image up to the loop.  encode_image returns
\* None on any exception; genai.configure / GenerativeModel may raise.
analyze_image_enter ==
    /\ a_pc \in {"idle", "done"}
    /\ \E setup \in {"ok", "encode_fails", "configure_fails"} :
         /\ a_pc' = IF setup = "ok" /\ 0 <= max_retries THEN "call" ELSE "done"
         /\ retries' = 0
         /\ calls' = 0
         /\ raised' = 0
         /\ sleeps' = <<>>
         /\ a_result' = None
         /\ returned' = FALSE
         /\ text' = <<>>
    /\ UNCHANGED <<wvars, svars>>

\* Lines 111-145: one model call and what the loop body does with it.
generate_content ==
    /\ a_pc = "call"
    /\ \E r \in Responses :
         LET nxt == attempt([retries |-> retries, sleeps |-> sleeps], r)
         IN /\ calls' = calls + 1
            /\ raised' = IF r.raises THEN raised + 1 ELSE raised
            /\ returned' = ~r.raises
            /\ text' = r.text
            /\ retries' = nxt.retries
            /\ sleeps' = nxt.sleeps
            /\ a_result' = nxt.value
            /\ a_pc' = IF nxt.done THEN "done" ELSE "call"
    /\ UNCHANGED <<wvars, svars>>

-----------------------------------------------------------------------------
(* Files and the temp workspace *)

\* An uploaded file name, as <<stem, extension>> (os.path.splitext).
FileNames == {<<"a", ".jpg">>, <<"a", ".cr2">>, <<"b", ".PNG">>}

\* str.lower() on the extensions that occur.
lower(e) ==
    CASE e = ".PNG" -> ".png"
      [] e = ".JPG" -> ".jpg"
      [] e = ".CR2" -> ".cr2"
      [] OTHER -> e

Dirs == {"tagged_images", "stripped_images"}

\* os.path.join(output_dir, name) as <<directory, name>>.
OutNames == FileNames \cup {<<n[1], ".jpg">> : n \in FileNames}
OutPaths == Dirs \X OutNames
basename(path) == path[2]

ZipNames == {"tagged_images.zip", "stripped_images.zip"}

\* No archive written yet in this script run.
NoZips == [z \in {} |-> <<>>]

\* No output saved yet in this script run.
NoContent == [path \in {} |-> 0]

\* Lines 174 / 194 / 218 / 240: saving to path `out` replaces what the path
\* held by the processed content of file number k of the batch.
save_output(c, out, k) == [path \in DOMAIN c \cup {out} |-> IF path = out THEN k ELSE c[path]]

\* Line 272: the uploader of tab 1 accepts jpg, jpeg and png only.
TaggingNames == {n \in FileNames : lower(n[2]) \in {".jpg", ".jpeg", ".png"}}

\* Line 364: the uploader of tab 2 accepts cr2 when rawpy was imported.
StrippingNames(raw) == {n \in FileNames : lower(n[2]) = ".cr2" => raw}

\* All batches an uploader can hand over: 1..MaxFiles files, in upload order.
Batches(names) == UNION {[1..n -> names] : n \in 1..MaxFiles}

-----------------------------------------------------------------------------
(* write_image_metadata: which container fields it sets (lines 162-195) *)

JpegExts == {".jpg", ".jpeg"}

\* The container field a metadata key is stored in.
FieldName(ext, k) ==
    IF ext \in JpegExts
    THEN CASE k = "caption" -> "caption/abstract"
           [] k = "byline" -> "by-line"
           [] OTHER -> k
    ELSE k

\* value.encode('utf-8') raises AttributeError on a value that is not a string.
encode_raises(d, k) == k \in DOMAIN d /\ TruthyValue(d[k]) /\ d[k] # "text"

\* Lines 164-173: the IPTC fields assigned from dict d.
jpeg_fields(d) ==
    {FieldName(".jpg", k) :
        k \in {x \in DOMAIN d :
                 /\ TruthyValue(d[x])
                 /\ (x = "keywords" => IsList(d[x]))}}

\* Lines 181-193: the text chunks added from dict d.
png_fields(d) == {FieldName(".png", k) : k \in {x \in DOMAIN d : TruthyValue(d[x])}}

\* Lines 162-197 without the codec calls: whether the extension is supported,
\* whether an exception is raised inside the try, and the fields set.
set_fields(ext, meta) ==
    IF ext \in JpegExts
    THEN [supported |-> TRUE,
          raises |-> \/ meta.kind # "dict"
                     \/ \E k \in Keys \ {"keywords"} : encode_raises(meta.dict, k),
          fields |-> IF meta.kind = "dict" THEN jpeg_fields(meta.dict) ELSE {}]
    ELSE IF ext = ".png"
    THEN [supported |-> TRUE,
          raises |-> \/ meta.kind # "dict"
                     \/ \E k \in Keys \ {"keywords"} : encode_raises(meta.dict, k),
          fields |-> IF meta.kind = "dict" THEN png_fields(meta.dict) ELSE {}]
    ELSE [supported |-> FALSE, raises |-> FALSE, fields |-> {}]

\* All metadata records over the five keys.
Records == UNION {[K -> ValueKinds] : K \in SUBSET Keys}

WInit ==
    /\ w_ext \in {".jpg", ".jpeg", ".png"}
    /\ w_meta \in Records
    /\ w_done = FALSE
    /\ w_ret = FALSE
    /\ w_fields = {}

\* write_image_metadata on (w_ext, w_meta) with working codecs.
write_fields ==
    /\ ~w_done
    /\ LET r == set_fields(w_ext, Dict(w_meta))
       IN /\ w_ret' = (r.supported /\ ~r.raises)
          /\ w_fields' = IF r.supported /\ ~r.raises THEN r.fields ELSE {}
    /\ w_done' = TRUE
    /\ UNCHANGED <<w_ext, w_meta, avars, svars>>

-----------------------------------------------------------------------------
(* Initial states *)

AInit ==
    /\ a_pc = "idle"
    /\ retries = 0
    /\ calls = 0
    /\ raised = 0
    /\ sleeps = <<>>
    /\ a_result = None
    /\ returned = FALSE
    /\ text = <<>>

WIdle ==
    /\ w_ext = ".jpg"
    /\ w_meta = EmptyDict
    /\ w_done = FALSE
    /\ w_ret = FALSE
    /\ w_fields = {}

\* Lines 68-79: the session state after the first script run, on an empty
\* temp directory made by tempfile.mkdtemp().  rawpy is installed: without it
\* the uploader offers no cr2 and the session is one of these without cr2 files.
SInit ==
    /\ RAW_SUCCESS = TRUE
    /\ processed_files = <<>>
    /\ disk = {}
    /\ scratch = {}
    /\ zips = NoZips
    /\ pc = "idle"
    /\ files = <<>>
    /\ i = 1
    /\ local = <<>>
    /\ log = <<>>
    /\ runs = 0
    /\ last = "none"
    /\ exc = "none"
    /\ metadata = None
    /\ invoked = FALSE
    /\ fields = {}
    /\ content = NoContent

SIdle == SInit

-----------------------------------------------------------------------------
(* The per-file functions on the temp workspace.                             *)
(*                                                                           *)
(* fault is what goes wrong in the environment during the call:             *)
(*   "none", "scratch_open" (open() of the scratch copy raises),            *)
(*   "scratch_write" (f.write raises after open() created the file),        *)
(*   "codec" (the image library raises while decoding or saving),           *)
(*   "remove" (os.remove of the scratch copy raises).                       *)
(* Each returns [ret, disk, scratch]: ret is "True", "False" or "raise"     *)
(* (an exception leaves the function).                                      *)

Faults == {"none", "scratch_open", "scratch_write", "codec", "remove"}

\* The scratch copy around a try / finally body (lines 155-157 and 201-203,
\* 210-212 and 223-225, 232-234 and 245-247).  The copy is written before the
\* try statement is entered; the finally clause belongs to the try only.
with_scratch_copy(name, fault, dsk, scr, out, saves) ==
    IF fault = "scratch_open"
    THEN [ret |-> "raise", disk |-> dsk, scratch |-> scr, saved |-> FALSE]
    ELSE IF fault = "scratch_write"
    THEN [ret |-> "raise", disk |-> dsk, scratch |-> scr \cup {name},
          saved |-> FALSE]
    ELSE LET dsk1 == IF saves THEN dsk \cup {out} ELSE dsk
         IN IF fault = "remove"
            THEN [ret |-> "raise", disk |-> dsk1, scratch |-> scr \cup {name},
                  saved |-> saves]
            ELSE [ret |-> IF saves THEN "True" ELSE "False",
                  disk |-> dsk1,
                  scratch |-> (scr \cup {name}) \ {name},
                  saved |-> saves]

\* Lines 149-203.
write_image_metadata(name, out, meta, fault, dsk, scr) ==
    LET r == set_fields(lower(name[2]), meta)
    IN with_scratch_copy(name, fault, dsk, scr, out,
                         r.supported /\ ~r.raises /\ fault # "codec")

\* Lines 208-225.
remove_metadata_image(name, out, fault, dsk, scr) ==
    with_scratch_copy(name, fault, dsk, scr, out, fault # "codec")

\* Lines 227-247.
process_raw_cr2(name, out, fault, dsk, scr) ==
    IF ~RAW_SUCCESS
    THEN [ret |-> "False", disk |-> dsk, scratch |-> scr, saved |-> FALSE]
    ELSE with_scratch_copy(name, fault, dsk, scr, out, fault # "codec")

-----------------------------------------------------------------------------
(* analyze_image as one call, for the batches *)

\* What the environment does during one call of analyze_image: how the setup
\* of lines 95-103 ends, and a model client that raises on its first `raises`
\* calls and then returns a response with `text`.
Env(setup, raises, t) == [setup |-> setup, raises |-> raises, text |-> t]

Behaviours ==
    { Env("encode_fails", 0, <<>>),
      Env("configure_fails", 0, <<>>),
      Env("ok", 6, <<>>),
      Env("ok", 0, <<>>),
      Env("ok", 0, <<"X", "X">>),
      Env("ok", 0, <<"{", "}">>),
      Env("ok", 5, <<"FENCE", "X", "NL", "{", "caption:empty", ",", "keywords:list", "}", "NL", "FENCE", "NL">>),
      Env("ok", 0, <<"SP", "7", "SP">>) }

RECURSIVE analyze_loop(_, _)
analyze_loop(st, b) ==
    LET r == IF st.retries < b.raises THEN [raises |-> TRUE, text |-> <<>>]
             ELSE [raises |-> FALSE, text |-> b.text]
        nxt == attempt(st, r)
    IN IF nxt.done THEN nxt.value
       ELSE analyze_loop([retries |-> nxt.retries, sleeps |-> nxt.sleeps], b)

\* Lines 93-147 as a function of what the environment does.
analyze_image(b) ==
    IF b.setup # "ok" \/ ~(0 <= max_retries) THEN None
    ELSE analyze_loop([retries |-> 0, sleeps |-> <<>>], b)

\* The values analyze_image can return to process_tagging.
AnalysisResults == {analyze_image(b) : b \in Behaviours}

-----------------------------------------------------------------------------
(* main(): the download sections and the Clear Outputs buttons *)

\* Lines 321-322 / 411-412: the members of the archive written from pf.
zip_members(pf) == [k \in 1..Len(pf) |-> basename(pf[k])]

\* Lines 312-332 (tab 1) and 402-422 (tab 2): the archive a tab writes, added
\* to the archives z this script run wrote before.
download_section(zname, pf, z) ==
    IF Len(pf) > 1
    THEN [n \in DOMAIN z \cup {zname} |-> IF n = zname THEN zip_members(pf) ELSE z[n]]
    ELSE z

\* Lines 351-353 / 441-443: the files of pf removed from the disk.
remove_outputs(pf, dsk) == dsk \ {pf[k] : k \in 1..Len(pf)}

\* Line 456: the output path of a tagged file.
tagging_output_path(file) == <<"tagged_images", file>>

\* Lines 474-481: the output path of a stripped file.
stripping_output_path(file) ==
    IF lower(file[2]) = ".cr2" THEN <<"stripped_images", <<file[1], ".jpg">>>>
    ELSE <<"stripped_images", file>>

\* A variant of lines 462 / 488 that extends the list the session held.
stored_list_merged(old, new) == old \o new

\* Lines 462 / 488: the session list after a batch, from the list `old` the
\* session held and the local list `new` of the batch.
stored_list(old, new) == new

ResetFileGhosts ==
    /\ metadata' = None
    /\ invoked' = FALSE
    /\ fields' = {}

\* Lines 302-309 and 447-454: "Analyze Images" on a batch; process_tagging begins.
click_analyze ==
    /\ pc = "idle"
    /\ runs < MaxRuns
    /\ runs' = runs + 1
    /\ \E fs \in Batches(TaggingNames) : files' = fs
    /\ pc' = "tagging"
    /\ i' = 1
    /\ local' = <<>>
    /\ log' = <<>>
    /\ last' = "tagging"
    /\ exc' = "none"
    /\ ResetFileGhosts
    /\ zips' = NoZips
    /\ content' = NoContent
    /\ UNCHANGED <<RAW_SUCCESS, processed_files, disk, scratch, avars, wvars>>

\* Lines 455-459: one iteration of the loop of process_tagging.  An exception
\* that leaves write_image_metadata leaves process_tagging and main() too.
\* After the last file: line 462, then the rest of the script run, which is
\* the download section of tab 1 and the download section of tab 2.
tag_file ==
    /\ pc = "tagging"
    /\ i <= Len(files)
    /\ \E meta \in AnalysisResults :
       \E fault \in (IF Truthy(meta) THEN Faults ELSE {"none"}) :
         LET file == files[i]
             output_path == tagging_output_path(file)
             w == IF Truthy(meta)
                  THEN write_image_metadata(file, output_path, meta, fault, disk, scratch)
                  ELSE [ret |-> "False", disk |-> disk, scratch |-> scratch,
                        saved |-> FALSE]
             appended == IF w.ret = "True" THEN Append(local, output_path) ELSE local
             stored == stored_list(processed_files, appended)
         IN /\ metadata' = meta
            /\ invoked' = Truthy(meta)
            /\ fields' = IF Truthy(meta) /\ w.ret = "True"
                         THEN set_fields(lower(file[2]), meta).fields ELSE {}
            /\ disk' = w.disk
            /\ content' = IF w.saved THEN save_output(content, output_path, i)
                          ELSE content
            /\ scratch' = w.scratch
            /\ IF w.ret = "raise"
               THEN /\ pc' = "finished"
                    /\ exc' = "raised"
                    /\ i' = 1
                    /\ local' = <<>>
                    /\ UNCHANGED <<log, processed_files, zips>>
               ELSE IF i = Len(files)
               THEN /\ pc' = "finished"
                    /\ i' = 1
                    /\ local' = <<>>
                    /\ log' = Append(log, w.ret = "True")
                    /\ processed_files' = stored
                    /\ zips' = download_section("stripped_images.zip", stored,
                                   download_section("tagged_images.zip", stored, NoZips))
                    /\ exc' = exc
               ELSE /\ i' = i + 1
                    /\ local' = appended
                    /\ log' = Append(log, w.ret = "True")
                    /\ UNCHANGED <<pc, exc, processed_files, zips>>
    /\ UNCHANGED <<RAW_SUCCESS, files, runs, last, avars, wvars>>

\* Lines 312-355 run first (tab 1, on the list of the earlier batch), then
\* lines 394-399 and 464-471: "Remove Metadata" on a batch; process_stripping begins.
click_remove ==
    /\ pc = "idle"
    /\ runs < MaxRuns
    /\ runs' = runs + 1
    /\ \E fs \in Batches(StrippingNames(RAW_SUCCESS)) : files' = fs
    /\ zips' = download_section("tagged_images.zip", processed_files, NoZips)
    /\ pc' = "stripping"
    /\ i' = 1
    /\ local' = <<>>
    /\ log' = <<>>
    /\ last' = "stripping"
    /\ exc' = "none"
    /\ ResetFileGhosts
    /\ content' = NoContent
    /\ UNCHANGED <<RAW_SUCCESS, processed_files, disk, scratch, avars, wvars>>

\* Lines 472-485: one iteration of the loop of process_stripping.  After the
\* last file: line 488, then the download section of tab 2.
strip_file ==
    /\ pc = "stripping"
    /\ i <= Len(files)
    /\ \E fault \in Faults :
         LET file == files[i]
             is_raw == lower(file[2]) = ".cr2"
             output_path == stripping_output_path(file)
             w == IF is_raw
                  THEN process_raw_cr2(file, output_path, fault, disk, scratch)
                  ELSE remove_metadata_image(file, output_path, fault, disk, scratch)
             appended == IF w.ret = "True" THEN Append(local, output_path) ELSE local
             stored == stored_list(processed_files, appended)
         IN /\ disk' = w.disk
            /\ content' = IF w.saved THEN save_output(content, output_path, i)
                          ELSE content
            /\ scratch' = w.scratch
            /\ IF w.ret = "raise"
               THEN /\ pc' = "finished"
                    /\ exc' = "raised"
                    /\ i' = 1
                    /\ local' = <<>>
                    /\ UNCHANGED <<log, processed_files, zips>>
               ELSE IF i = Len(files)
               THEN /\ pc' = "finished"
                    /\ i' = 1
                    /\ local' = <<>>
                    /\ log' = Append(log, w.ret = "True")
                    /\ processed_files' = stored
                    /\ zips' = download_section("stripped_images.zip", stored, zips)
                    /\ exc' = exc
               ELSE /\ i' = i + 1
                    /\ local' = appended
                    /\ log' = Append(log, w.ret = "True")
                    /\ UNCHANGED <<pc, exc, processed_files, zips>>
    /\ UNCHANGED <<RAW_SUCCESS, files, runs, last, metadata, invoked, fields,
                   avars, wvars>>

\* A variant of lines 354 / 444 that keeps the list.
clear_outputs_keep_list == processed_files

\* Lines 354 / 444: the session list after Clear Outputs.
clear_outputs_list == <<>>

\* Lines 350-355: "Clear Outputs" of tab 1.  The download section of tab 1
\* runs before it, tab 2 after it on the emptied list.
clear_outputs_tagging ==
    /\ pc = "idle"
    /\ runs < MaxRuns
    /\ runs' = runs + 1
    /\ processed_files # <<>>
    /\ zips' = download_section("tagged_images.zip", processed_files, NoZips)
    /\ disk' = remove_outputs(processed_files, disk)
    /\ processed_files' = clear_outputs_list
    /\ last' = "clear"
    /\ exc' = "none"
    /\ files' = <<>>
    /\ log' = <<>>
    /\ ResetFileGhosts
    /\ pc' = "finished"
    /\ UNCHANGED <<RAW_SUCCESS, scratch, i, local, content, avars, wvars>>

\* Lines 440-445: "Clear Outputs" of tab 2, after both download sections.
clear_outputs_stripping ==
    /\ pc = "idle"
    /\ runs < MaxRuns
    /\ runs' = runs + 1
    /\ processed_files # <<>>
    /\ zips' = download_section("stripped_images.zip", processed_files,
                   download_section("tagged_images.zip", processed_files, NoZips))
    /\ disk' = remove_outputs(processed_files, disk)
    /\ processed_files' = clear_outputs_list
    /\ last' = "clear"
    /\ exc' = "none"
    /\ files' = <<>>
    /\ log' = <<>>
    /\ ResetFileGhosts
    /\ pc' = "finished"
    /\ UNCHANGED <<RAW_SUCCESS, scratch, i, local, content, avars, wvars>>

\* Any other interaction (typing the key, changing the upload): the script
\* reruns and both download sections are rendered again.
rerun ==
    /\ pc = "idle"
    /\ runs < MaxRuns
    /\ runs' = runs + 1
    /\ zips' = download_section("stripped_images.zip", processed_files,
                   download_section("tagged_images.zip", processed_files, NoZips))
    /\ last' = "rerun"
    /\ exc' = "none"
    /\ files' = <<>>
    /\ log' = <<>>
    /\ ResetFileGhosts
    /\ pc' = "finished"
    /\ UNCHANGED <<RAW_SUCCESS, processed_files, disk, scratch, i, local,
                   content, avars, wvars>>

\* Lines 490-491: main() has returned, or an exception ended it; the page is
\* shown and the session waits for the next interaction.  What stays is
\* st.session_state and the temp workspace.
script_run_ends ==
    /\ pc = "finished"
    /\ pc' = "idle"
    /\ files' = <<>>
    /\ log' = <<>>
    /\ zips' = NoZips
    /\ last' = "none"
    /\ exc' = "none"
    /\ ResetFileGhosts
    /\ content' = NoContent
    /\ UNCHANGED <<RAW_SUCCESS, processed_files, disk, scratch, runs, i, local,
                   avars, wvars>>

Init == AInit /\ WIdle /\ SInit

Next ==
    \/ click_analyze
    \/ tag_file
    \/ click_remove
    \/ strip_file
    \/ clear_outputs_tagging
    \/ clear_outputs_stripping
    \/ rerun
    \/ script_run_ends

Spec == Init /\ [][Next]_vars

-----------------------------------------------------------------------------
(* Properties of a session *)

\* The output path process_tagging / process_stripping gives a file.
output_path_of(mode, file) ==
    IF mode = "tagging" THEN tagging_output_path(file)
    ELSE stripping_output_path(file)

\* The output paths of the files fs whose flag in lg is TRUE, in the order of fs.
RECURSIVE Succeeded(_, _, _)
Succeeded(mode, fs, lg) ==
    IF fs = <<>> \/ lg = <<>> THEN <<>>
    ELSE (IF Head(lg) THEN <<output_path_of(mode, Head(fs))>> ELSE <<>>)
             \o Succeeded(mode, Tail(fs), Tail(lg))

\* The script run of a batch is over / is over and no exception ended it.
BatchEnded == pc = "finished" /\ last \in {"tagging", "stripping"}
BatchCompleted == BatchEnded /\ exc = "none"

\* C3: after a batch completes, the session list is exactly the output paths
\* of the files of that batch that succeeded, in upload order, with nothing
\* carried over from an earlier batch.
C3_ListIsSuccessesInOrder ==
    BatchCompleted => processed_files = Succeeded(last, files, log)

C3_Witness ==
    /\ BatchCompleted /\ last = "stripping" /\ runs = 2
    /\ files = <<<<"a", ".cr2">>, <<"b", ".PNG">>>>
    /\ log = <<FALSE, TRUE>>
    /\ processed_files = <<<<"stripped_images", <<"b", ".PNG">>>>>>
    /\ <<"tagged_images", <<"a", ".jpg">>>> \in disk

\* C4: no failure of a file leaves the batch loop: when the script run of a
\* batch is over, no exception ended it, every file of the batch was
\* processed and the result list of the batch was stored.
C4_NoFailureLeavesLoop ==
    BatchEnded => /\ exc = "none"
                  /\ Len(log) = Len(files)
                  /\ processed_files = Succeeded(last, files, log)

\* C5: in every state of a session every path in processed_files names a
\* file that exists on disk.
C5_ListedFilesExist ==
    \A k \in 1..Len(processed_files) : processed_files[k] \in disk

C5_Witness ==
    /\ pc = "finished" /\ runs = 3 /\ last = "stripping"
    /\ Len(processed_files) = 2
    /\ \E path \in disk : path[1] = "tagged_images"

\* The archive named by the mode of a batch.
zip_of(mode) == IF mode = "tagging" THEN "tagged_images.zip" ELSE "stripped_images.zip"

\* C6: once a batch completed, if its result list has more than one entry,
\* exactly one archive holds it, the one named by the mode of the batch, with
\* one member per output named by basename; with 0 or 1 entries the script run
\* of the batch writes no archive from it (in the run of a stripping batch,
\* tab 1 wrote its archive from the earlier list before the batch began).
C6_OneZipNamedByMode ==
    BatchCompleted =>
        IF Len(processed_files) > 1
        THEN {z \in DOMAIN zips : zips[z] = zip_members(processed_files)}
                 = {zip_of(last)}
        ELSE DOMAIN zips \subseteq
                 (IF last = "stripping" THEN {"tagged_images.zip"} ELSE {})

\* C8: a file of a tagging batch whose response parsed into the empty JSON
\* object is a success: the writer is invoked, it sets no field, and the
\* output path of the file is appended.
C8_EmptyRecordIsSuccess ==
    (last = "tagging" /\ metadata = Dict(EmptyDict))
        => /\ invoked
           /\ fields = {}
           /\ log # <<>> /\ log[Len(log)]

\* C9: after Clear Outputs the session list is empty and no output file of
\* any batch of the session remains in tagged_images/ or stripped_images/.
C9_ClearLeavesNoOutput ==
    last = "clear" => processed_files = <<>> /\ disk = {}

\* C10: whenever a call of write_image_metadata, remove_metadata_image or
\* process_raw_cr2 has finished (every state of a session lies between two
\* calls), no scratch copy remains directly under the temp workspace.
C10_NoScratchCopyRemains == scratch = {}

\* C11: when a batch completed, two different files of it that both
\* succeeded have two different output paths, and the output path of every
\* file that succeeded holds the processed content of that file.
C11_OwnOutputPerFile ==
    BatchCompleted =>
        \A j, k \in 1..Len(files) :
            (log[j] /\ log[k]) =>
                /\ (j # k => output_path_of(last, files[j])
                                 # output_path_of(last, files[k]))
                /\ output_path_of(last, files[k]) \in DOMAIN content
                /\ content[output_path_of(last, files[k])] = k

\* A stripping batch of a.cr2 and a.jpg in which both files succeeded: both
\* entries of the list name stripped_images/a.jpg, which holds the second.
C11_Witness ==
    /\ BatchCompleted /\ last = "stripping"
    /\ files = <<<<"a", ".cr2">>, <<"a", ".jpg">>>>
    /\ log = <<TRUE, TRUE>>
    /\ processed_files = <<<<"stripped_images", <<"a", ".jpg">>>>,
                           <<"stripped_images", <<"a", ".jpg">>>>>>
    /\ content = (<<"stripped_images", <<"a", ".jpg">>>> :> 2)

-----------------------------------------------------------------------------
(* SpecAnalyze: analyze_image alone.  The interpreter keeps running a call   *)
(* that has started, which is the weak fairness of generate_content.        *)

InitAnalyze == AInit /\ WIdle /\ SIdle

NextAnalyze == analyze_image_enter \/ generate_content

SpecAnalyze == InitAnalyze /\ [][NextAnalyze]_vars /\ WF_vars(generate_content)

\* C1: when every model call raises, analyze_image makes exactly
\* max_retries + 1 = 6 calls, sleeps exactly 1, 2, 4, 8, 16 seconds in that
\* order (so no sleep follows the last call) and returns None.
C1_BackoffResult ==
    (a_pc = "done" /\ calls > 0 /\ raised = calls)
        => /\ calls = max_retries + 1
           /\ sleeps = <<1, 2, 4, 8, 16>>
           /\ a_result = None

\* C1: the exhausted-retries result, and a started call always returns.
C1_Backoff == []C1_BackoffResult /\ ((a_pc = "call") ~> (a_pc = "done"))

C1_Witness == a_pc = "done" /\ raised = 6 /\ calls = 6 /\ Len(sleeps) = 5

\* The response text is empty, empty after sanitizing, or not valid JSON.
BadText(t) == t = <<>> \/ sanitize(t) = <<>> \/ ~json_loads(sanitize(t)).ok

\* C2: once a model call returned a response whose text is empty, empty after
\* fence / control-character stripping, or not valid JSON, analyze_image has
\* returned None: that call was the last one and no sleep followed it, at any
\* retry count.
C2_ParseFailureNotRetried ==
    (returned /\ BadText(text))
        => /\ a_pc = "done"
           /\ a_result = None
           /\ calls = raised + 1
           /\ Len(sleeps) = raised

C2_Witness ==
    /\ returned /\ text = <<"X", "X">> /\ raised = 3
    /\ a_pc = "done" /\ sleeps = <<1, 2, 4>>

-----------------------------------------------------------------------------
(* SpecWriter: the writer's field logic on every bounded record *)

NextWriter == write_fields

InitWriter == AInit /\ WInit /\ SIdle

SpecWriter == InitWriter /\ [][NextWriter]_vars

\* C7: for every record and both branches, a successful write sets exactly
\* the container fields of the keys present in the record.
C7_ExactlyPresentFields ==
    (w_done /\ w_ret) => w_fields = {FieldName(w_ext, k) : k \in DOMAIN w_meta}

====
